---------------------------- MODULE Spec2Model ----------------------------
(***************************************************************************)
(* Model of TrialDataAnalyzer (src/clinical_trial_analyzer.py): the CSV    *)
(* load / type conversion / validation / partition step, the statistics,   *)
(* the advanced analysis and the charts computed from its result, and the  *)
(* site ranking query of the web and console front ends.                   *)
(*                                                                         *)
(* A CSV cell is a text.  TLC cannot look inside a string, so every text   *)
(* of the input domain is paired with its character sequence (Chars); the  *)
(* conversions (numeric parse, date parse, formatting) are computed on the *)
(* characters.                                                             *)
(***************************************************************************)
EXTENDS Integers, Sequences, FiniteSets, TLC

VARIABLES csv_file, df, invalid_records, errors, ret, loads, site_group,
          log, patients, runs, temp_upload, requests

vars == <<csv_file, df, invalid_records, errors, ret, loads, site_group,
          log, patients, runs, temp_upload, requests>>

(***************************************************************************)
(* Bounds of the model.                                                    *)
(***************************************************************************)
MaxRows == 2          \* data rows of a file with the full header
MaxSchemaRows == 1    \* data rows of a file with an incomplete header
MaxLoads == 2         \* calls of load_and_validate_data on one analyzer
MaxStatsRows == 3     \* data rows of a file of the statistics specification
MaxAnalysisRows == 2  \* data rows of a file of the analysis specification
MaxGroupTotal == 12   \* patients of a small site of the grading specification
MaxCoerceRows == 2    \* data rows of a file of the conversion specification
MaxRuns == 2          \* analyzers constructed in one process
MaxErrors == 2        \* messages of failed database calls of one analyzer
MaxRequests == 2      \* requests the web server handles at a time

(***************************************************************************)
(* Program constants.                                                      *)
(***************************************************************************)
MinAge == 0
MaxAge == 150

required_cols == <<"patient_id", "trial_site", "enrollment_date",
                   "age", "adverse_event", "completed_trial">>

RequiredSet == {required_cols[i] : i \in 1..Len(required_cols)}

\* Columns calculate_statistics indexes in self.df.
stats_cols == {"trial_site", "age", "completed_trial", "adverse_event"}

(***************************************************************************)
(* Input domain: the texts a cell may hold.                                *)
(***************************************************************************)
PatientIdTexts == {"P001", ""}
SiteTexts == {"Site_A", ""}
DateTexts == {"2024-01-15", "2024-02-30"}
AgeTexts == {"abc", "-1", "0", "150", "200"}
BoolTexts == {"true", "false"}

Chars(s) ==
    CASE s = "" -> <<>>
      [] s = "abc" -> <<"a", "b", "c">>
      [] s = "-1" -> <<"-", "1">>
      [] s = "0" -> <<"0">>
      [] s = "1" -> <<"1">>
      [] s = "35" -> <<"3", "5">>
      [] s = "50" -> <<"5", "0">>
      [] s = "150" -> <<"1", "5", "0">>
      [] s = "151" -> <<"1", "5", "1">>
      [] s = "200" -> <<"2", "0", "0">>
      [] s = "2024-01-15" -> <<"2", "0", "2", "4", "-", "0", "1", "-", "1", "5">>
      [] s = "2024-02-30" -> <<"2", "0", "2", "4", "-", "0", "2", "-", "3", "0">>
      [] s = "15/01/2024" -> <<"1", "5", "/", "0", "1", "/", "2", "0", "2", "4">>
      [] s = "P001" -> <<"P", "0", "0", "1">>
      [] s = "Site_A" -> <<"S", "i", "t", "e", "_", "A">>
      [] s = "Site_B" -> <<"S", "i", "t", "e", "_", "B">>
      [] s = "true" -> <<"t", "r", "u", "e">>
      [] s = "TRUE" -> <<"T", "R", "U", "E">>
      [] s = "True" -> <<"T", "r", "u", "e">>
      [] s = "false" -> <<"f", "a", "l", "s", "e">>
      [] s = "False" -> <<"F", "a", "l", "s", "e">>
      [] s = "yes" -> <<"y", "e", "s">>
      [] s = "nan" -> <<"n", "a", "n">>

RECURSIVE Join(_)
Join(cs) == IF cs = <<>> THEN "" ELSE Head(cs) \o Join(Tail(cs))

(***************************************************************************)
(* Character-level helpers.                                                *)
(***************************************************************************)
Digits == {"0", "1", "2", "3", "4", "5", "6", "7", "8", "9"}

DigitVal(c) ==
    CASE c = "0" -> 0 [] c = "1" -> 1 [] c = "2" -> 2 [] c = "3" -> 3
      [] c = "4" -> 4 [] c = "5" -> 5 [] c = "6" -> 6 [] c = "7" -> 7
      [] c = "8" -> 8 [] c = "9" -> 9

AllDigits(cs) == Len(cs) > 0 /\ \A i \in 1..Len(cs) : cs[i] \in Digits

RECURSIVE DecVal(_)
DecVal(cs) ==
    IF cs = <<>> THEN 0
    ELSE 10 * DecVal(SubSeq(cs, 1, Len(cs) - 1)) + DigitVal(cs[Len(cs)])

LowerChar(c) ==
    CASE c = "T" -> "t" [] c = "R" -> "r" [] c = "U" -> "u" [] c = "E" -> "e"
      [] c = "F" -> "f" [] c = "A" -> "a" [] c = "L" -> "l" [] c = "S" -> "s"
      [] c = "P" -> "p" [] c = "B" -> "b"
      [] OTHER -> c

Lower(cs) == [i \in 1..Len(cs) |-> LowerChar(cs[i])]


RECURSIVE IntChars(_)
IntChars(n) ==
    IF n < 0 THEN <<"-">> \o IntChars(-n)
    ELSE IF n < 10 THEN <<ToString(n)>>
    ELSE IntChars(n \div 10) \o <<ToString(n % 10)>>

(***************************************************************************)
(* pandas.read_csv: missing-value texts and column type inference.         *)
(* Numeric literals of the domain are signed decimal integers; a numeric   *)
(* column with a missing cell is float64, without one int64.               *)
(***************************************************************************)
NAValues == {"", "#N/A", "N/A", "NA", "NULL", "NaN", "n/a", "nan", "null", "<NA>"}

IsNA(s) == s \in NAValues

NaN == "nan"

IsIntLiteral(cs) ==
    \/ AllDigits(cs)
    \/ Len(cs) > 1 /\ cs[1] \in {"-", "+"} /\ AllDigits(Tail(cs))

IntLiteralVal(cs) ==
    IF cs[1] = "-" THEN 0 - DecVal(Tail(cs))
    ELSE IF cs[1] = "+" THEN DecVal(Tail(cs))
    ELSE DecVal(cs)

TrueValues == {"True", "TRUE", "true"}
FalseValues == {"False", "FALSE", "false"}

\* dtype read_csv infers for a column from its cell texts
InferDtype(cells) ==
    IF cells = <<>> THEN "object"
    ELSE IF \A i \in 1..Len(cells) : ~IsNA(cells[i]) /\ IsIntLiteral(Chars(cells[i]))
        THEN "int64"
    ELSE IF \A i \in 1..Len(cells) : IsNA(cells[i]) \/ IsIntLiteral(Chars(cells[i]))
        THEN "float64"
    ELSE IF \A i \in 1..Len(cells) : cells[i] \in TrueValues \cup FalseValues
        THEN "bool"
    ELSE "object"

Column(rows, c) == [i \in 1..Len(rows) |-> rows[i][c]]

\* a text cell of an object column: the text, or NaN when it is a missing-value text
StrCell(s) == IF IsNA(s) THEN NaN ELSE s

isna(v) == v = NaN

(***************************************************************************)
(* pd.to_numeric(..., errors='coerce') on the age column.                  *)
(***************************************************************************)
NumNaN == [nan |-> TRUE, n |-> 0]

\* mutant: a text that is not a number becomes 0
ParseNumber_ZeroOnError(s) ==
    IF ~IsNA(s) /\ IsIntLiteral(Chars(s))
    THEN [nan |-> FALSE, n |-> IntLiteralVal(Chars(s))]
    ELSE [nan |-> FALSE, n |-> 0]

ParseNumber(s) ==
    IF ~IsNA(s) /\ IsIntLiteral(Chars(s))
    THEN [nan |-> FALSE, n |-> IntLiteralVal(Chars(s))]
    ELSE NumNaN

\* the parse of every age text of the input domain, computed once
NumberCache == [s \in AgeTexts |-> ParseNumber(s)]

to_numeric(s) == IF s \in AgeTexts THEN NumberCache[s] ELSE ParseNumber(s)

AgeDtype(cells) == IF InferDtype(cells) = "int64" THEN "int64" ELSE "float64"

\* mutant: the value is always printed as a float
FormatAge_AlwaysFloat(a, dtype) ==
    IF a.nan THEN "nan" ELSE Join(IntChars(a.n)) \o ".0"

\* str() of an age value as the f-string of the reason prints it
FormatAge(a, dtype) ==
    IF a.nan THEN "nan"
    ELSE IF dtype = "int64" THEN Join(IntChars(a.n))
    ELSE Join(IntChars(a.n)) \o ".0"

(***************************************************************************)
(* pd.to_datetime(..., format='%Y-%m-%d', errors='coerce').                *)
(***************************************************************************)
NaT == [nat |-> TRUE, y |-> 0, m |-> 0, d |-> 0]

IsLeap(y) == (y % 4 = 0 /\ y % 100 # 0) \/ y % 400 = 0

DaysInMonth(y, m) ==
    IF m = 2 THEN (IF IsLeap(y) THEN 29 ELSE 28)
    ELSE IF m \in {4, 6, 9, 11} THEN 30
    ELSE 31

\* the calendar check of the three numbers
DateOfNumbers(y, m, d) ==
    IF y >= 1 /\ m \in 1..12 /\ d >= 1 /\ d <= DaysInMonth(y, m)
    THEN [nat |-> FALSE, y |-> y, m |-> m, d |-> d]
    ELSE NaT

\* %Y is four digits, %m and %d one or two
DateOfFields(ys, ms, ds) ==
    IF /\ AllDigits(ys) /\ Len(ys) = 4
       /\ AllDigits(ms) /\ Len(ms) \in {1, 2}
       /\ AllDigits(ds) /\ Len(ds) \in {1, 2}
    THEN DateOfNumbers(DecVal(ys), DecVal(ms), DecVal(ds))
    ELSE NaT

\* the text between the two "-" of the format
DateOfSplit(cs, p1, p2) ==
    DateOfFields(SubSeq(cs, 1, p1 - 1), SubSeq(cs, p1 + 1, p2 - 1),
                 SubSeq(cs, p2 + 1, Len(cs)))

SetMin(S) == CHOOSE x \in S : \A y \in S : x <= y

SetMax(S) == CHOOSE x \in S : \A y \in S : x >= y

DateOfChars(cs, seps) ==
    IF Cardinality(seps) # 2 THEN NaT
    ELSE DateOfSplit(cs, SetMin(seps), SetMax(seps))

SepPositions(cs) == {i \in 1..Len(cs) : cs[i] = "-"}

DateOfText(cs) == DateOfChars(cs, SepPositions(cs))

ParseDate(s) == IF IsNA(s) THEN NaT ELSE DateOfText(Chars(s))

\* the parse of every date text of the input domain, computed once
DateCache == [s \in DateTexts |-> ParseDate(s)]

to_datetime(s) == IF s \in DateTexts THEN DateCache[s] ELSE ParseDate(s)

(***************************************************************************)
(* .astype(str).str.lower().isin(['true', '1']) on a boolean column.       *)
(***************************************************************************)
\* str() of the cell as read_csv typed it
AsTypeStr(s, dtype) ==
    IF dtype = "int64" THEN IntChars(IntLiteralVal(Chars(s)))
    ELSE IF dtype = "float64"
        THEN (IF IsNA(s) THEN Chars(NaN)
              ELSE IntChars(IntLiteralVal(Chars(s))) \o <<".", "0">>)
    ELSE IF dtype = "bool"
        THEN (IF s \in TrueValues THEN Chars("True") ELSE Chars("False"))
    ELSE IF IsNA(s) THEN Chars(NaN)
    ELSE Chars(s)

to_bool(s, dtype) ==
    Lower(AsTypeStr(s, dtype)) \in {Chars("true"), Chars("1")}

(***************************************************************************)
(* The file at self.csv_file.  status "ok": read_csv returns a table with  *)
(* the given header and rows (a row maps each header column to its text).  *)
(* Any other status: read_csv raises the exception of that name.           *)
(***************************************************************************)
RowsOver(header, pids, sites, dates, ages, aes, cts) ==
    LET full == [patient_id : pids, trial_site : sites, enrollment_date : dates,
                 age : ages, adverse_event : aes, completed_trial : cts]
    IN {[c \in header |-> r[c]] : r \in full}

ReadErrors == {"FileNotFoundError", "EmptyDataError", "ParserError"}

File(status, header, rows) == [status |-> status, header |-> header, rows |-> rows]

ExceptionText(e) ==
    CASE e = "FileNotFoundError" -> "[Errno 2] No such file or directory"
      [] e = "EmptyDataError" -> "No columns to parse from file"
      [] e = "ParserError" -> "Error tokenizing data"

(***************************************************************************)
(* DataFrames.  self.df is None, the table as read (converted = FALSE,     *)
(* rows of texts) or the converted table (typed rows).  source_index is    *)
(* the index label a row got from read_csv; reset_index(drop=True)         *)
(* relabels the kept rows 0..n-1, the model keeps the label to name rows.  *)
(* age_group holds the values of the column of that name, which the        *)
(* analysis operations add to the table (it is in columns when present).   *)
(***************************************************************************)
NoneDf == [isNone |-> TRUE, converted |-> FALSE, columns |-> {},
           rows |-> <<>>, age_dtype |-> "none", age_group |-> <<>>]

read_csv(file) ==
    [isNone |-> FALSE, converted |-> FALSE, columns |-> file.header,
     rows |-> file.rows, age_dtype |-> "none", age_group |-> <<>>]

\* lines 70-82: the four column conversions
ConvertRows(rows) ==
    LET aeT == InferDtype(Column(rows, "adverse_event"))
        ctT == InferDtype(Column(rows, "completed_trial"))
    IN [i \in 1..Len(rows) |->
          [source_index |-> i - 1,
           patient_id |-> StrCell(rows[i]["patient_id"]),
           trial_site |-> StrCell(rows[i]["trial_site"]),
           enrollment_date |-> to_datetime(rows[i]["enrollment_date"]),
           age |-> to_numeric(rows[i]["age"]),
           adverse_event |-> to_bool(rows[i]["adverse_event"], aeT),
           completed_trial |-> to_bool(rows[i]["completed_trial"], ctT)]]

\* mutant: the trial_site check is left out of the mask
invalid_mask_NoSiteCheck(r) ==
    \/ r.enrollment_date.nat
    \/ r.age.nan
    \/ (~r.age.nan /\ r.age.n < MinAge)
    \/ (~r.age.nan /\ r.age.n > MaxAge)
    \/ isna(r.patient_id)

\* mutant: the upper age bound is exclusive
invalid_mask_ExclusiveUpper(r) ==
    \/ r.enrollment_date.nat
    \/ r.age.nan
    \/ (~r.age.nan /\ r.age.n < MinAge)
    \/ (~r.age.nan /\ r.age.n >= MaxAge)
    \/ isna(r.patient_id)
    \/ isna(r.trial_site)

\* lines 85-92
invalid_mask(r) ==
    \/ r.enrollment_date.nat
    \/ r.age.nan
    \/ (~r.age.nan /\ r.age.n < MinAge)
    \/ (~r.age.nan /\ r.age.n > MaxAge)
    \/ isna(r.patient_id)
    \/ isna(r.trial_site)

\* mutant: the patient ID check runs before the age check
reasons_PatientBeforeAge(r, dtype) ==
    (IF r.enrollment_date.nat THEN <<"Invalid enrollment date">> ELSE <<>>)
    \o (IF isna(r.patient_id) THEN <<"Missing patient ID">> ELSE <<>>)
    \o (IF r.age.nan \/ (~r.age.nan /\ r.age.n < MinAge)
                     \/ (~r.age.nan /\ r.age.n > MaxAge)
        THEN <<"Invalid age: " \o FormatAge(r.age, dtype)>> ELSE <<>>)
    \o (IF isna(r.trial_site) THEN <<"Missing trial site">> ELSE <<>>)

\* mutant: the age reason is given for an unparseable age only
reasons_NoRangeCheck(r, dtype) ==
    (IF r.enrollment_date.nat THEN <<"Invalid enrollment date">> ELSE <<>>)
    \o (IF r.age.nan
        THEN <<"Invalid age: " \o FormatAge(r.age, dtype)>> ELSE <<>>)
    \o (IF isna(r.patient_id) THEN <<"Missing patient ID">> ELSE <<>>)
    \o (IF isna(r.trial_site) THEN <<"Missing trial site">> ELSE <<>>)

\* lines 102-110
reasons(r, dtype) ==
    (IF r.enrollment_date.nat THEN <<"Invalid enrollment date">> ELSE <<>>)
    \o (IF r.age.nan \/ (~r.age.nan /\ r.age.n < MinAge)
                     \/ (~r.age.nan /\ r.age.n > MaxAge)
        THEN <<"Invalid age: " \o FormatAge(r.age, dtype)>> ELSE <<>>)
    \o (IF isna(r.patient_id) THEN <<"Missing patient ID">> ELSE <<>>)
    \o (IF isna(r.trial_site) THEN <<"Missing trial site">> ELSE <<>>)

\* lines 112-113: row.to_dict() plus the reasons
InvalidRecord(r, dtype) ==
    [source_index |-> r.source_index,
     patient_id |-> r.patient_id,
     trial_site |-> r.trial_site,
     enrollment_date |-> r.enrollment_date,
     age |-> r.age,
     adverse_event |-> r.adverse_event,
     completed_trial |-> r.completed_trial,
     validation_errors |-> reasons(r, dtype)]

\* lines 101-114: the loop over self.df[invalid_mask].iterrows()
InvalidRecords(rows, dtype) ==
    LET bad == SelectSeq(rows, invalid_mask)
    IN [i \in 1..Len(bad) |-> InvalidRecord(bad[i], dtype)]

\* mutant: rows with a negative age are kept as well
ValidRows_KeepNegativeAge(rows) ==
    SelectSeq(rows, LAMBDA r : ~invalid_mask(r) \/ (~r.age.nan /\ r.age.n < MinAge))

\* mutant: the kept rows come out in reverse order
ValidRows_Reversed(rows) ==
    LET kept == SelectSeq(rows, LAMBDA r : ~invalid_mask(r))
    IN [i \in 1..Len(kept) |-> kept[Len(kept) + 1 - i]]

\* line 128: self.df[~invalid_mask].reset_index(drop=True)
ValidRows(rows) == SelectSeq(rows, LAMBDA r : ~invalid_mask(r))

\* line 58
MissingCols(columns) == SelectSeq(required_cols, LAMBDA c : c \notin columns)

\* str() of a list of column names
RECURSIVE ListItems(_)
ListItems(cs) ==
    IF cs = <<>> THEN ""
    ELSE IF Len(cs) = 1 THEN "'" \o cs[1] \o "'"
    ELSE "'" \o cs[1] \o "', " \o ListItems(Tail(cs))

ListStr(cs) == "[" \o ListItems(cs) \o "]"

MissingColsMsg(cs) == "Missing columns: " \o ListStr(cs)

TotalInvalidMsg(n) ==
    "Total: " \o ToString(n) \o " invalid record(s) excluded from analysis"

NoValidMsg == "No valid records found after validation"

LoadErrorMsg(e) == "Error loading CSV: " \o ExceptionText(e)

LoadRet(b) == [op |-> "load_and_validate_data", value |-> b]

(***************************************************************************)
(* load_and_validate_data (lines 39-148).                                  *)
(***************************************************************************)
LoadRaises ==
    /\ csv_file.status # "ok"
    /\ errors' = Append(errors, LoadErrorMsg(csv_file.status))
    /\ ret' = LoadRet(FALSE)
    /\ UNCHANGED <<df, invalid_records>>

LoadMissingColumns ==
    /\ csv_file.status = "ok"
    /\ MissingCols(csv_file.header) # <<>>
    /\ df' = read_csv(csv_file)
    /\ errors' = Append(errors, MissingColsMsg(MissingCols(csv_file.header)))
    /\ ret' = LoadRet(FALSE)
    /\ UNCHANGED invalid_records

\* mutant: the aggregate note is written even when nothing was excluded
StorePartition_AlwaysNotes(inv, kept, dtype) ==
    /\ invalid_records' = inv
    /\ df' = [isNone |-> FALSE, converted |-> TRUE, columns |-> csv_file.header,
              rows |-> kept, age_dtype |-> dtype,
              age_group |-> <<>>]
    /\ errors' = Append(errors, TotalInvalidMsg(Len(inv)))
                 \o (IF Len(kept) = 0 THEN <<NoValidMsg>> ELSE <<>>)
    /\ ret' = LoadRet(Len(kept) # 0)

\* mutant: the empty working set is not checked
StorePartition_NoEmptyCheck(inv, kept, dtype) ==
    /\ invalid_records' = inv
    /\ df' = [isNone |-> FALSE, converted |-> TRUE, columns |-> csv_file.header,
              rows |-> kept, age_dtype |-> dtype,
              age_group |-> <<>>]
    /\ errors' = (IF Len(inv) > 0 THEN Append(errors, TotalInvalidMsg(Len(inv)))
                  ELSE errors)
    /\ ret' = LoadRet(TRUE)

\* lines 119-142: the aggregate note, the kept rows and the return value
StorePartition(inv, kept, dtype) ==
    /\ invalid_records' = inv
    /\ df' = [isNone |-> FALSE, converted |-> TRUE, columns |-> csv_file.header,
              rows |-> kept, age_dtype |-> dtype,
              age_group |-> <<>>]
    /\ errors' = (IF Len(inv) > 0 THEN Append(errors, TotalInvalidMsg(Len(inv)))
                  ELSE errors)
                 \o (IF Len(kept) = 0 THEN <<NoValidMsg>> ELSE <<>>)
    /\ ret' = LoadRet(Len(kept) # 0)

\* lines 85-128 on the converted table
Partition(rows, dtype) ==
    StorePartition(InvalidRecords(rows, dtype), ValidRows(rows), dtype)

LoadValidate ==
    /\ csv_file.status = "ok"
    /\ MissingCols(csv_file.header) = <<>>
    /\ Partition(ConvertRows(csv_file.rows), AgeDtype(Column(csv_file.rows, "age")))

\* the records one call sends to the logger of data_validation.log, by level
\* (lines 45-53, 62, 69-79, 96-99, 117-123, 129-139, 147), from the file and
\* the partition the call made of it
load_output(f, kept, inv) ==
    IF f.status # "ok" THEN [info |-> 5, warning |-> 0, error |-> 1]
    ELSE IF MissingCols(f.header) # <<>>
        THEN [info |-> 6, warning |-> 0, error |-> 1]
    ELSE [info |-> 13,
          warning |-> (IF \E i \in 1..Len(inv) : inv[i].enrollment_date.nat THEN 1 ELSE 0)
                      + (IF \E i \in 1..Len(inv) : inv[i].age.nan THEN 1 ELSE 0)
                      + (IF Len(inv) > 0 THEN Len(inv) + 4 ELSE 0),
          error |-> (IF Len(inv) > 0 THEN 1 ELSE 0) + (IF Len(kept) = 0 THEN 1 ELSE 0)]

\* the log file after more records
AddOutput(l, o) ==
    [info |-> l.info + o.info, warning |-> l.warning + o.warning,
     error |-> l.error + o.error]

Load ==
    /\ loads < MaxLoads
    /\ loads' = loads + 1
    /\ (LoadRaises \/ LoadMissingColumns \/ LoadValidate)
    /\ log' = AddOutput(log, load_output(csv_file, df'.rows, invalid_records'))
    /\ UNCHANGED <<csv_file, site_group, patients, runs, temp_upload, requests>>

(***************************************************************************)
(* calculate_statistics (lines 150-184).  It has no try/except: on a table *)
(* that was read but not converted (load stopped at the column check) the  *)
(* column lookups and reductions either work on the inferred dtypes or     *)
(* raise.                                                                  *)
(***************************************************************************)
\* lines 159-176 on an unconverted table: the columns exist, age is numeric,
\* completed_trial can be summed and adverse_event is a boolean mask
RawStatsComputable(d) ==
    /\ stats_cols \subseteq d.columns
    /\ InferDtype(Column(d.rows, "age")) \in {"int64", "float64"}
    /\ InferDtype(Column(d.rows, "completed_trial")) \in {"bool", "int64", "float64"}
    /\ InferDtype(Column(d.rows, "adverse_event")) = "bool"

StatsEmpty == [op |-> "calculate_statistics", kind |-> "empty"]

StatsRaised == [op |-> "calculate_statistics", kind |-> "raised"]

\* True sums as 1, False as 0
BoolSum(b) == IF b THEN 1 ELSE 0

\* the columns calculate_statistics reads, of a converted table
ConvertedStatsRows(rows) ==
    [i \in 1..Len(rows) |->
       [trial_site |-> rows[i].trial_site,
        age |-> rows[i].age,
        adverse_event |-> rows[i].adverse_event,
        completed_trial |-> BoolSum(rows[i].completed_trial)]]

\* the same columns of a table that was read but not converted, with the
\* values read_csv inferred
InferredStatsRows(rows) ==
    LET ctT == InferDtype(Column(rows, "completed_trial"))
    IN [i \in 1..Len(rows) |->
          [trial_site |-> StrCell(rows[i]["trial_site"]),
           age |-> ParseNumber(rows[i]["age"]),
           adverse_event |-> rows[i]["adverse_event"] \in TrueValues,
           completed_trial |->
               IF ctT = "bool" THEN BoolSum(rows[i]["completed_trial"] \in TrueValues)
               ELSE IF ParseNumber(rows[i]["completed_trial"]).nan THEN 0
               ELSE ParseNumber(rows[i]["completed_trial"]).n]]

StatsRows(d) ==
    IF d.converted THEN ConvertedStatsRows(d.rows) ELSE InferredStatsRows(d.rows)

RECURSIVE SeqSum(_)
SeqSum(s) == IF s = <<>> THEN 0 ELSE Head(s) + SeqSum(Tail(s))

\* Series.sum() of completed_trial
completed_sum(rows) == SeqSum([i \in 1..Len(rows) |-> rows[i].completed_trial])

\* Series.sum() of adverse_event
adverse_sum(rows) == SeqSum([i \in 1..Len(rows) |-> BoolSum(rows[i].adverse_event)])

\* num / den rounded to the nearest integer, a tie to the even one (den > 0)
RoundHalfEven(num, den) ==
    LET q == num \div den
        r == num % den
    IN IF 2 * r < den THEN q
       ELSE IF 2 * r > den THEN q + 1
       ELSE IF q % 2 = 0 THEN q ELSE q + 1

\* mutant: the third decimal is cut off
Round2_Truncates(num, den) == (100 * num) \div den

\* round(num / den, 2), in hundredths
Round2(num, den) == RoundHalfEven(100 * num, den)

\* round((part / whole) * 100, 2), in hundredths of a percent
RatePercent(part, whole) == Round2(100 * part, whole)

\* mutant: each site that occurs is counted once
value_counts_Unique(cells) ==
    [v \in {cells[i] : i \in 1..Len(cells)} \ {NaN} |-> 1]

\* Series.value_counts().to_dict(): NaN is not counted
value_counts(cells) ==
    [v \in {cells[i] : i \in 1..Len(cells)} \ {NaN} |->
        Cardinality({i \in 1..Len(cells) : cells[i] = v})]

patients_per_site(rows) == value_counts([i \in 1..Len(rows) |-> rows[i].trial_site])

\* round(self.df['age'].mean(), 2), in hundredths; mean() skips NaN
average_age(rows) ==
    LET known == SelectSeq(rows, LAMBDA r : ~r.age.nan)
    IN IF known = <<>> THEN NumNaN
       ELSE [nan |-> FALSE,
             n |-> Round2(SeqSum([i \in 1..Len(known) |-> known[i].age.n]), Len(known))]

\* self.df[self.df['adverse_event']]
with_adverse(rows) == SelectSeq(rows, LAMBDA r : r.adverse_event)

\* mutant: the negation of the mask is forgotten
without_adverse_SameMask(rows) == SelectSeq(rows, LAMBDA r : r.adverse_event)

\* self.df[~self.df['adverse_event']]
without_adverse(rows) == SelectSeq(rows, LAMBDA r : ~r.adverse_event)

\* mutant: an empty stratum counts as fully completed
stratum_rate_EmptyIsFull(stratum) ==
    IF Len(stratum) > 0 THEN RatePercent(completed_sum(stratum), Len(stratum))
    ELSE RatePercent(1, 1)

\* lines 169-176: the completion rate of a stratum, 0 for an empty one
stratum_rate(stratum) ==
    IF Len(stratum) > 0 THEN RatePercent(completed_sum(stratum), Len(stratum)) ELSE 0

\* mutant: the excluded records are counted but not listed
data_quality_CountsOnly(n, inv) ==
    [valid_records |-> n,
     invalid_records |-> Len(inv),
     invalid_record_details |-> <<>>]

\* lines 178-182
data_quality(n, inv) ==
    [valid_records |-> n,
     invalid_records |-> Len(inv),
     invalid_record_details |-> inv]

\* lines 155-184 on the columns it reads; rates are in hundredths of a percent
Stats(rows, inv) ==
    [op |-> "calculate_statistics", kind |-> "report",
     total_patients |-> Len(rows),
     patients_per_site |-> patients_per_site(rows),
     average_age |-> average_age(rows),
     completion_rate_percent |-> RatePercent(completed_sum(rows), Len(rows)),
     adverse_event_rate_percent |-> RatePercent(adverse_sum(rows), Len(rows)),
     completion_rate_with_adverse_percent |-> stratum_rate(with_adverse(rows)),
     completion_rate_without_adverse_percent |-> stratum_rate(without_adverse(rows)),
     data_quality |-> data_quality(Len(rows), inv)]

StatsReport(d, inv) == Stats(StatsRows(d), inv)

calculate_statistics_NoneOnly(d, inv) ==
    IF d.isNone THEN StatsEmpty
    ELSE IF Len(d.rows) = 0 \/ (~d.converted /\ ~RawStatsComputable(d)) THEN StatsRaised
    ELSE StatsReport(d, inv)

calculate_statistics(d, inv) ==
    IF d.isNone \/ Len(d.rows) = 0 THEN StatsEmpty
    ELSE IF ~d.converted /\ ~RawStatsComputable(d) THEN StatsRaised
    ELSE StatsReport(d, inv)

\* mutant: the call hands over the excluded records and empties the list
CalculateStatistics_DrainsInvalid ==
    /\ ret' = calculate_statistics(df, invalid_records)
    /\ invalid_records' = <<>>
    /\ UNCHANGED <<csv_file, df, errors, loads, site_group,
                 log, patients, runs, temp_upload, requests>>

CalculateStatistics ==
    /\ ret' = calculate_statistics(df, invalid_records)
    /\ UNCHANGED <<csv_file, df, invalid_records, errors, loads, site_group,
                 log, patients, runs, temp_upload, requests>>

(***************************************************************************)
(* get_advanced_analysis (lines 300-328) and create_visualizations (lines  *)
(* 330-437).  Both assign self.df['age_group'] = pd.cut(self.df['age'],    *)
(* ...), each with its own bins.  Neither has a try/except.                *)
(***************************************************************************)
analysis_bins == <<0, 35, 50, 65, 150>>
analysis_labels == <<"18-35", "36-50", "51-65", "65+">>

age_bins == <<0, 35, 45, 55, 65, 150>>
age_labels == <<"18-35", "36-45", "46-55", "56-65", "65+">>

\* the age column as numbers, of a converted table or as read_csv inferred it
AgeColumn(d) ==
    IF d.converted THEN [i \in 1..Len(d.rows) |-> d.rows[i].age]
    ELSE [i \in 1..Len(d.rows) |-> ParseNumber(d.rows[i]["age"])]

\* pd.cut of one value: the label of the bin (bins[k], bins[k+1]] that holds
\* it, NaN for a value in no bin
cut(a, bins, labels) ==
    IF a.nan \/ ~\E k \in 1..Len(labels) : bins[k] < a.n /\ a.n <= bins[k + 1]
    THEN NaN
    ELSE labels[CHOOSE k \in 1..Len(labels) : bins[k] < a.n /\ a.n <= bins[k + 1]]

with_age_group_KeepExisting(d, bins, labels) ==
    IF "age_group" \in d.columns THEN d
    ELSE [d EXCEPT !.columns = @ \cup {"age_group"},
                   !.age_group = [i \in 1..Len(d.rows) |-> cut(AgeColumn(d)[i], bins, labels)]]

\* self.df['age_group'] = pd.cut(self.df['age'], bins=..., labels=...)
with_age_group(d, bins, labels) ==
    [d EXCEPT !.columns = @ \cup {"age_group"},
              !.age_group = [i \in 1..Len(d.rows) |-> cut(AgeColumn(d)[i], bins, labels)]]

\* round(mean, 2) of a column, in hundredths; NaN for no rows
Mean2(total, count) ==
    IF count = 0 THEN NumNaN ELSE [nan |-> FALSE, n |-> Round2(total, count)]

\* lines 306-310: per site, sum / count / mean of completed_trial, sum of
\* adverse_event and mean of age
site_performance(rows) ==
    [s \in DOMAIN patients_per_site(rows) |->
        LET at == SelectSeq(rows, LAMBDA r : r.trial_site = s)
        IN [completed_sum |-> completed_sum(at),
            completed_count |-> Len(at),
            completed_mean |-> Mean2(completed_sum(at), Len(at)),
            adverse_sum |-> adverse_sum(at),
            age_mean |-> average_age(at)]]

\* the rows whose age_group is the label g
RowsInGroup(rows, groups, g) ==
    LET at == SelectSeq([i \in 1..Len(rows) |-> i], LAMBDA i : groups[i] = g)
    IN [k \in 1..Len(at) |-> rows[at[k]]]

\* lines 316-318: per age group, sum / count / mean of completed_trial; a row
\* whose age_group is NaN is in no group
age_group_analysis(rows, groups, labels) ==
    [g \in {labels[k] : k \in 1..Len(labels)} |->
        [completed_sum |-> completed_sum(RowsInGroup(rows, groups, g)),
         completed_count |-> Len(RowsInGroup(rows, groups, g)),
         completed_mean |-> Mean2(completed_sum(RowsInGroup(rows, groups, g)),
                                  Len(RowsInGroup(rows, groups, g)))]]

numeric_cols == <<"age", "adverse_event", "completed_trial">>

\* the value of a row in a correlated column, as a number
NumCell(r, c) ==
    IF c = "age" THEN r.age
    ELSE IF c = "adverse_event" THEN [nan |-> FALSE, n |-> BoolSum(r.adverse_event)]
    ELSE [nan |-> FALSE, n |-> r.completed_trial]

CorrNaN == [nan |-> TRUE, num |-> 0, den |-> 0]

\* Pearson correlation of the sums n, sx, sy, sxx, syy, sxy of the paired
\* values: NaN when a variance is zero, else num / sqrt(den), kept exact
pearson_of_sums(n, sx, sy, sxx, syy, sxy) ==
    IF (n * sxx - sx * sx) * (n * syy - sy * sy) = 0 THEN CorrNaN
    ELSE [nan |-> FALSE, num |-> n * sxy - sx * sy,
          den |-> (n * sxx - sx * sx) * (n * syy - sy * sy)]

\* DataFrame.corr() of two columns over the rows that have both values
pearson(xs, ys) ==
    pearson_of_sums(Len(xs), SeqSum(xs), SeqSum(ys),
                    SeqSum([i \in 1..Len(xs) |-> xs[i] * xs[i]]),
                    SeqSum([i \in 1..Len(ys) |-> ys[i] * ys[i]]),
                    SeqSum([i \in 1..Len(xs) |-> xs[i] * ys[i]]))

\* lines 321-322 (and 1049 in main): the correlation matrix
correlations(rows) ==
    [a \in {numeric_cols[k] : k \in 1..Len(numeric_cols)} |->
       [b \in {numeric_cols[k] : k \in 1..Len(numeric_cols)} |->
          LET both == SelectSeq(rows, LAMBDA r : ~NumCell(r, a).nan /\ ~NumCell(r, b).nan)
          IN pearson([i \in 1..Len(both) |-> NumCell(both[i], a).n],
                     [i \in 1..Len(both) |-> NumCell(both[i], b).n])]]

\* lines 306-310 on an unconverted table: the columns exist and can be
\* summed and averaged
RawAnalysisComputable(d) ==
    /\ stats_cols \subseteq d.columns
    /\ InferDtype(Column(d.rows, "age")) \in {"int64", "float64"}
    /\ InferDtype(Column(d.rows, "completed_trial")) \in {"bool", "int64", "float64"}
    /\ InferDtype(Column(d.rows, "adverse_event")) \in {"bool", "int64", "float64"}

AnalysisEmpty == [op |-> "get_advanced_analysis", kind |-> "empty"]

AnalysisRaised == [op |-> "get_advanced_analysis", kind |-> "raised"]

AnalysisReport(rows, groups) ==
    [op |-> "get_advanced_analysis", kind |-> "report",
     site_performance |-> site_performance(rows),
     age_group_analysis |-> age_group_analysis(rows, groups, analysis_labels),
     correlations |-> correlations(rows)]

\* the value returned and the table left behind
get_advanced_analysis(d) ==
    IF d.isNone \/ Len(d.rows) = 0 THEN [ret |-> AnalysisEmpty, df |-> d]
    ELSE IF ~d.converted /\ ~RawAnalysisComputable(d) THEN [ret |-> AnalysisRaised, df |-> d]
    ELSE LET grouped == with_age_group(d, analysis_bins, analysis_labels)
         IN [ret |-> AnalysisReport(StatsRows(d), grouped.age_group), df |-> grouped]

GetAdvancedAnalysis ==
    /\ ret' = get_advanced_analysis(df).ret
    /\ df' = get_advanced_analysis(df).df
    /\ UNCHANGED <<csv_file, invalid_records, errors, loads, site_group,
                 log, patients, runs, temp_upload, requests>>

ChartsEmpty == [op |-> "create_visualizations", kind |-> "empty"]

ChartsRaised == [op |-> "create_visualizations", kind |-> "raised"]

\* chart 3: value_counts().sort_index() of the age_group column
age_distribution(groups, labels) ==
    [g \in {labels[k] : k \in 1..Len(labels)} |->
        Cardinality({i \in 1..Len(groups) : groups[i] = g})]

\* chart 4: rows without and with an adverse event
adverse_counts(rows) == <<Len(without_adverse(rows)), Len(with_adverse(rows))>>

Charts(rows, groups) ==
    [op |-> "create_visualizations", kind |-> "charts",
     age_distribution |-> age_distribution(groups, age_labels),
     adverse_events |-> adverse_counts(rows)]

\* charts 1 and 2 on an unconverted table: the grouped columns exist
RawTimelineComputable(d) ==
    {"enrollment_date", "trial_site", "completed_trial"} \subseteq d.columns

\* chart 3 on an unconverted table: pd.cut needs a numeric age column
RawCutComputable(d) ==
    "age" \in d.columns /\ InferDtype(Column(d.rows, "age")) \in {"int64", "float64"}

\* the value returned and the table left behind; chart 4 raises after the
\* column was assigned when the table has no adverse_event column
create_visualizations(d) ==
    IF d.isNone \/ Len(d.rows) = 0 THEN [ret |-> ChartsEmpty, df |-> d]
    ELSE IF ~d.converted /\ ~(RawTimelineComputable(d) /\ RawCutComputable(d))
        THEN [ret |-> ChartsRaised, df |-> d]
    ELSE LET grouped == with_age_group(d, age_bins, age_labels)
         IN IF "adverse_event" \notin d.columns
            THEN [ret |-> ChartsRaised, df |-> grouped]
            ELSE [ret |-> Charts(StatsRows(d), grouped.age_group), df |-> grouped]

CreateVisualizations ==
    /\ ret' = create_visualizations(df).ret
    /\ df' = create_visualizations(df).df
    /\ UNCHANGED <<csv_file, invalid_records, errors, loads, site_group,
                 log, patients, runs, temp_upload, requests>>

(***************************************************************************)
(* The site ranking query (lines 872-887 in index, 1202-1217 in main):     *)
(* per trial_site group of the patients table, the row count, the sum of   *)
(* completed_trial, ROUND(100.0 * SUM / COUNT, 2) and the grade the CASE   *)
(* gives that rounded percentage.  site_group is the count and the sum of  *)
(* one group.                                                              *)
(***************************************************************************)
NoGroup == [total |-> 0, completed |-> 0]

\* the process at its start: an empty log, no patients table in
\* trial_data.db, one analyzer, no temp_upload.csv, no request
NoOutput == [info |-> 0, warning |-> 0, error |-> 0]

NoTable == [exists |-> FALSE, data |-> NoneDf]

InitProcess ==
    /\ log = NoOutput
    /\ patients = NoTable
    /\ runs = 1
    /\ temp_upload = File("FileNotFoundError", {}, <<>>)
    /\ requests = <<>>

\* SQLite ROUND(100.0 * part / whole, 2), in hundredths: half away from zero
SqlRoundPercent(part, whole) == (2 * 100 * 100 * part + whole) \div (2 * whole)

\* mutant: the A threshold is strict
grade_StrictA(pct) ==
    IF pct > 90 * 100 THEN "A (Excellent)"
    ELSE IF pct >= 70 * 100 THEN "B (Good)"
    ELSE IF pct >= 50 * 100 THEN "C (Fair)"
    ELSE "D (Poor)"

\* the CASE expression, on the rounded percentage in hundredths
grade(pct) ==
    IF pct >= 90 * 100 THEN "A (Excellent)"
    ELSE IF pct >= 70 * 100 THEN "B (Good)"
    ELSE IF pct >= 50 * 100 THEN "C (Fair)"
    ELSE "D (Poor)"

\* the row of the query result for one group
site_ranking_row(g) ==
    [op |-> "query_sqlite",
     total |-> g.total,
     completed |-> g.completed,
     completion_pct |-> SqlRoundPercent(g.completed, g.total),
     grade |-> grade(SqlRoundPercent(g.completed, g.total))]

QuerySiteRanking ==
    /\ site_group # NoGroup
    /\ ret' = site_ranking_row(site_group)
    /\ UNCHANGED <<csv_file, df, invalid_records, errors, loads, site_group,
                 log, patients, runs, temp_upload, requests>>

\* a group in which one patient is one hundredth of a percent
GridTotal == 100 * 100

\* the groups of the grading specification: every small site, and the sites
\* of GridTotal patients, whose percentages are all the hundredths of 0..100
InitGroup ==
    \/ \E t \in 1..MaxGroupTotal : \E c \in 0..t :
            site_group = [total |-> t, completed |-> c]
    \/ \E c \in 0..GridTotal : site_group = [total |-> GridTotal, completed |-> c]

InitGrade ==
    /\ InitGroup
    /\ csv_file = File("FileNotFoundError", {}, <<>>)
    /\ df = NoneDf
    /\ invalid_records = <<>>
    /\ errors = <<>>
    /\ ret = [op |-> "init"]
    /\ loads = 0
    /\ InitProcess

NextGrade == QuerySiteRanking

SpecGrade == InitGrade /\ [][NextGrade]_vars

(***************************************************************************)
(* The older copy of the program, src/screenshots/clinical_trial_analyzer  *)
(* .py: load_and_validate_data (lines 23-75) and calculate_statistics      *)
(* (lines 76-110), as functions of the file and of the state they leave.   *)
(***************************************************************************)
\* mutant: the older copy has no upper limit of the age
screenshots_invalid_mask_NoUpper(r) ==
    \/ r.enrollment_date.nat
    \/ r.age.nan
    \/ (~r.age.nan /\ r.age.n < 0)
    \/ isna(r.patient_id)
    \/ isna(r.trial_site)

\* lines 51-58 of the older copy
screenshots_invalid_mask(r) ==
    \/ r.enrollment_date.nat
    \/ r.age.nan
    \/ (~r.age.nan /\ r.age.n < 0)
    \/ (~r.age.nan /\ r.age.n > 150)
    \/ isna(r.patient_id)
    \/ isna(r.trial_site)

\* the value returned, the table and the invalid records the older copy is
\* left with; its invalid records are the rows themselves (to_dict('records'))
screenshots_load(f) ==
    IF f.status # "ok"
    THEN [value |-> FALSE, df |-> NoneDf, invalid_records |-> <<>>]
    ELSE IF SelectSeq(required_cols, LAMBDA c : c \notin f.header) # <<>>
        THEN [value |-> FALSE, df |-> read_csv(f), invalid_records |-> <<>>]
    ELSE LET converted == ConvertRows(f.rows)
             kept == SelectSeq(converted, LAMBDA r : ~screenshots_invalid_mask(r))
         IN [value |-> kept # <<>>,
             df |-> [isNone |-> FALSE, converted |-> TRUE, columns |-> f.header,
                     rows |-> kept,
                     age_dtype |-> AgeDtype(Column(f.rows, "age")),
                     age_group |-> <<>>],
             invalid_records |-> SelectSeq(converted, screenshots_invalid_mask)]

\* lines 76-110 of the older copy; rates are in hundredths of a percent
screenshots_calculate_statistics(d, inv) ==
    IF d.isNone \/ Len(d.rows) = 0 THEN [kind |-> "empty"]
    ELSE IF ~d.converted /\ ~RawStatsComputable(d) THEN [kind |-> "raised"]
    ELSE LET rows == StatsRows(d)
             with == SelectSeq(rows, LAMBDA r : r.adverse_event)
             without == SelectSeq(rows, LAMBDA r : ~r.adverse_event)
         IN [kind |-> "report",
             total_patients |-> Len(rows),
             patients_per_site |-> value_counts([i \in 1..Len(rows) |-> rows[i].trial_site]),
             average_age |-> average_age(rows),
             completion_rate_percent |-> Round2(100 * completed_sum(rows), Len(rows)),
             adverse_event_rate_percent |-> Round2(100 * adverse_sum(rows), Len(rows)),
             completion_rate_with_adverse_percent |->
                 IF Len(with) > 0 THEN Round2(100 * completed_sum(with), Len(with)) ELSE 0,
             completion_rate_without_adverse_percent |->
                 IF Len(without) > 0
                 THEN Round2(100 * completed_sum(without), Len(without)) ELSE 0,
             data_quality |-> [valid_records |-> Len(rows), invalid_records |-> Len(inv)]]

(***************************************************************************)
(* The patients table of trial_data.db (lines 275-298) and a new analyzer  *)
(* on another file (lines 32-37).                                          *)
(***************************************************************************)
\* mutant: the rows are added to the table that is there
to_sql_Append(d) ==
    IF patients.exists
    THEN [exists |-> TRUE, data |-> [d EXCEPT !.rows = patients.data.rows \o d.rows]]
    ELSE [exists |-> TRUE, data |-> d]

\* self.df.to_sql('patients', conn, if_exists='replace', index=False)
to_sql(d) == [exists |-> TRUE, data |-> d]

\* lines 275-285: without a table in df the call of to_sql raises
\* AttributeError, which is caught, noted and logged
LoadToSqlite ==
    /\ IF df.isNone
       THEN /\ Len(errors) < MaxErrors
            /\ errors' = Append(errors,
                    "SQLite error: 'NoneType' object has no attribute 'to_sql'")
            /\ log' = AddOutput(log, [info |-> 0, warning |-> 0, error |-> 1])
            /\ patients' = patients
       ELSE /\ patients' = to_sql(df)
            /\ UNCHANGED <<errors, log>>
    /\ ret' = [op |-> "load_to_sqlite", value |-> "None"]
    /\ UNCHANGED <<csv_file, df, invalid_records, loads, site_group,
                   runs, temp_upload, requests>>

\* the result of the site ranking query on a table: per trial_site group its
\* row (the ORDER BY of the rows is not kept)
site_ranking(d) ==
    LET sites == {StatsRows(d)[i].trial_site : i \in 1..Len(d.rows)} \ {NaN}
    IN [s \in sites |->
          LET at == SelectSeq(StatsRows(d), LAMBDA r : r.trial_site = s)
          IN site_ranking_row([total |-> Len(at), completed |-> completed_sum(at)])]

\* the text of the sqlite3 error the site ranking query fails with, "" when
\* it runs
query_failure(t) ==
    IF ~t.exists THEN "no such table: patients"
    ELSE IF "trial_site" \notin t.data.columns THEN "no such column: trial_site"
    ELSE IF "completed_trial" \notin t.data.columns THEN "no such column: completed_trial"
    ELSE ""

\* lines 287-298 with the site ranking query
QuerySqlite ==
    /\ IF query_failure(patients) # ""
       THEN /\ Len(errors) < MaxErrors
            /\ errors' = Append(errors, "Query error: " \o query_failure(patients))
            /\ log' = AddOutput(log, [info |-> 0, warning |-> 0, error |-> 1])
            /\ ret' = [op |-> "query_sqlite", value |-> "None"]
       ELSE /\ ret' = [op |-> "query_sqlite", value |-> site_ranking(patients.data)]
            /\ UNCHANGED <<errors, log>>
    /\ UNCHANGED <<csv_file, df, invalid_records, loads, site_group,
                   patients, runs, temp_upload, requests>>

\* the files of the runs: one valid record, one invalid record, two valid
\* records of two sites, a table without the trial_site column, and a
\* missing file
SqlFiles ==
    {File("ok", RequiredSet, <<r>>) :
        r \in RowsOver(RequiredSet, {"P001"}, {"Site_A"}, {"2024-01-15"},
                       {"35", "200"}, {"true"}, {"false"})}
    \cup {File("ok", RequiredSet, <<r, q>>) :
        r \in RowsOver(RequiredSet, {"P001"}, {"Site_A"}, {"2024-01-15"},
                       {"35"}, {"true"}, {"true"}),
        q \in RowsOver(RequiredSet, {"P001"}, {"Site_B"}, {"2024-01-15"},
                       {"35"}, {"true"}, {"false"})}
    \cup {File("ok", RequiredSet \ {"trial_site"}, <<r>>) :
        r \in RowsOver(RequiredSet \ {"trial_site"}, {"P001"}, {"Site_A"},
                       {"2024-01-15"}, {"35"}, {"true"}, {"true"})}
    \cup {File("FileNotFoundError", {}, <<>>)}

\* TrialDataAnalyzer(csv_file): a new analyzer in the same process; the log
\* and the database stay
Construct ==
    /\ runs < MaxRuns
    /\ runs' = runs + 1
    /\ csv_file' \in SqlFiles
    /\ df' = NoneDf
    /\ invalid_records' = <<>>
    /\ errors' = <<>>
    /\ loads' = 0
    /\ ret' = [op |-> "init"]
    /\ UNCHANGED <<site_group, log, patients, temp_upload, requests>>

InitSql ==
    /\ csv_file \in SqlFiles
    /\ df = NoneDf
    /\ invalid_records = <<>>
    /\ errors = <<>>
    /\ ret = [op |-> "init"]
    /\ loads = 0
    /\ site_group = NoGroup
    /\ InitProcess

NextSql == Load \/ LoadToSqlite \/ QuerySqlite \/ Construct

SpecSql == InitSql /\ [][NextSql]_vars

(***************************************************************************)
(* The web handlers index (lines 806-905) and api_analyze (lines 973-988). *)
(* Each request saves its upload as temp_upload.csv and analyses that path *)
(* with an analyzer of its own; the server handles requests in threads, so *)
(* the calls of two requests interleave.                                   *)
(***************************************************************************)
NoResult == [op |-> "none"]

\* the uploads: the files of SqlFiles that have all columns
Uploads == {f \in SqlFiles : f.status = "ok" /\ MissingCols(f.header) = <<>>}

\* TrialDataAnalyzer(temp_path), load_and_validate_data and, when it
\* succeeded, calculate_statistics on the file at the path
analyze(f) ==
    IF f.status # "ok" \/ MissingCols(f.header) # <<>> \/ ValidRows(ConvertRows(f.rows)) = <<>>
    THEN [ok |-> FALSE, df |-> NoneDf, stats |-> NoResult]
    ELSE LET d == [isNone |-> FALSE, converted |-> TRUE, columns |-> f.header,
                   rows |-> ValidRows(ConvertRows(f.rows)),
                   age_dtype |-> AgeDtype(Column(f.rows, "age")),
                   age_group |-> <<>>]
         IN [ok |-> TRUE, df |-> d,
             stats |-> calculate_statistics(d,
                           InvalidRecords(ConvertRows(f.rows),
                                          AgeDtype(Column(f.rows, "age"))))]

\* file.save(temp_path)
RequestSave ==
    \E r \in DOMAIN requests :
        /\ requests[r].pc = "start"
        /\ temp_upload' = requests[r].upload
        /\ requests' = [requests EXCEPT ![r].pc = "saved"]
        /\ UNCHANGED <<csv_file, df, invalid_records, errors, ret, loads, site_group,
                       log, patients, runs>>

\* the analysis of the file at temp_path: api_analyze answers with the
\* statistics, index goes on with the charts and the database when the load
\* succeeded and answers with the errors when it failed
RequestAnalyze ==
    \E r \in DOMAIN requests :
        /\ requests[r].pc = "saved"
        /\ log' = AddOutput(log, load_output(temp_upload,
                                  ValidRows(ConvertRows(temp_upload.rows)),
                                  InvalidRecords(ConvertRows(temp_upload.rows),
                                                 AgeDtype(Column(temp_upload.rows, "age")))))
        /\ requests' = [requests EXCEPT
              ![r].pc = IF analyze(temp_upload).ok /\ requests[r].kind = "index"
                        THEN "analyzed" ELSE "done",
              ![r].stats = analyze(temp_upload).stats,
              ![r].df = IF analyze(temp_upload).ok /\ requests[r].kind = "index"
                        THEN create_visualizations(analyze(temp_upload).df).df
                        ELSE analyze(temp_upload).df]
        /\ UNCHANGED <<csv_file, df, invalid_records, errors, ret, loads, site_group,
                       patients, runs, temp_upload>>

\* analyzer.load_to_sqlite() of index
RequestLoadToSqlite ==
    \E r \in DOMAIN requests :
        /\ requests[r].pc = "analyzed"
        /\ patients' = to_sql(requests[r].df)
        /\ requests' = [requests EXCEPT ![r].pc = "stored"]
        /\ UNCHANGED <<csv_file, df, invalid_records, errors, ret, loads, site_group,
                       log, runs, temp_upload>>

\* the site ranking query of index
RequestQuery ==
    \E r \in DOMAIN requests :
        /\ requests[r].pc = "stored"
        /\ requests' = [requests EXCEPT
              ![r].pc = "done",
              ![r].ranking = IF query_failure(patients) # "" THEN NoResult
                             ELSE site_ranking(patients.data)]
        /\ log' = IF query_failure(patients) # ""
                  THEN AddOutput(log, [info |-> 0, warning |-> 0, error |-> 1])
                  ELSE log
        /\ UNCHANGED <<csv_file, df, invalid_records, errors, ret, loads, site_group,
                       patients, runs, temp_upload>>

InitWeb ==
    /\ requests \in [1..MaxRequests ->
            [kind : {"index", "api_analyze"}, upload : Uploads, pc : {"start"},
             df : {NoneDf}, stats : {NoResult}, ranking : {NoResult}]]
    /\ log = NoOutput
    /\ patients = NoTable
    /\ runs = 1
    /\ temp_upload = File("FileNotFoundError", {}, <<>>)
    /\ csv_file = File("FileNotFoundError", {}, <<>>)
    /\ df = NoneDf
    /\ invalid_records = <<>>
    /\ errors = <<>>
    /\ ret = [op |-> "init"]
    /\ loads = 0
    /\ site_group = NoGroup

NextWeb == RequestSave \/ RequestAnalyze \/ RequestLoadToSqlite \/ RequestQuery

SpecWeb == InitWeb /\ [][NextWeb]_vars

(***************************************************************************)
(* generate_text_report (lines 186-246).                                   *)
(***************************************************************************)
NoDataText == "No valid data to report."

\* the first five entries of a list
FirstFive(seq) == SubSeq(seq, 1, IF Len(seq) < 5 THEN Len(seq) ELSE 5)

\* the text returned for the statistics; the sections of the report are kept
\* as the values they print
report_text(stats, notes) ==
    IF stats.kind = "empty" THEN NoDataText
    ELSE [statistics |-> stats,
          invalid_shown |-> FirstFive(stats.data_quality.invalid_record_details),
          remaining |-> Len(stats.data_quality.invalid_record_details)
                        - Len(FirstFive(stats.data_quality.invalid_record_details)),
          notes |-> FirstFive(notes)]

generate_text_report(d, inv, notes) ==
    IF calculate_statistics(d, inv).kind = "raised"
    THEN [op |-> "generate_text_report", kind |-> "raised"]
    ELSE [op |-> "generate_text_report", kind |-> "text",
          text |-> report_text(calculate_statistics(d, inv), notes)]

GenerateTextReport ==
    /\ ret' = generate_text_report(df, invalid_records, errors)
    /\ UNCHANGED <<csv_file, df, invalid_records, errors, loads, site_group,
                 log, patients, runs, temp_upload, requests>>

(***************************************************************************)
(* The console output of the correlations in main (lines 1047-1061), which *)
(* main reaches after a load that returned True.                           *)
(***************************************************************************)
\* the word printed after a correlation value
corr_label(c) == IF ~c.nan /\ c.num > 0 THEN "Positive" ELSE "Negative"

\* the three lines printed: the value and the word
key_correlations(rows) ==
    [p \in {<<"age", "adverse_event">>, <<"age", "completed_trial">>,
            <<"adverse_event", "completed_trial">>} |->
        [value |-> correlations(rows)[p[1]][p[2]],
         label |-> corr_label(correlations(rows)[p[1]][p[2]])]]

MainCorrelations ==
    /\ df.converted /\ Len(df.rows) > 0
    /\ ret' = [op |-> "main", key_correlations |-> key_correlations(StatsRows(df))]
    /\ UNCHANGED <<csv_file, df, invalid_records, errors, loads, site_group,
                 log, patients, runs, temp_upload, requests>>

(***************************************************************************)
(* Specification.  The analyzer is constructed on one file (lines 32-37);  *)
(* the file is drawn from the input domain.                                *)
(***************************************************************************)
FullRows == RowsOver(RequiredSet, PatientIdTexts, SiteTexts, DateTexts, AgeTexts,
                     {"true"}, {"false"})

\* rows of the files whose header is incomplete or whose read raises
SchemaRows(header) == RowsOver(header, {"P001"}, {"Site_A"}, {"2024-01-15"},
                               {"abc", "150"}, {"true"}, {"false"})

\* a file without any column raises EmptyDataError, so a readable file has
\* at least one; a missing or empty file has no table, a file with a ragged
\* line has one that read_csv never returns
InitFile ==
    \/ \E k \in 0..MaxRows : \E rs \in [1..k -> FullRows] :
            csv_file = File("ok", RequiredSet, rs)
    \/ \E h \in (SUBSET RequiredSet) \ {RequiredSet, {}} :
       \E k \in 0..MaxSchemaRows : \E rs \in [1..k -> SchemaRows(h)] :
            csv_file = File("ok", h, rs)
    \/ \E e \in {"FileNotFoundError", "EmptyDataError"} :
            csv_file = File(e, {}, <<>>)
    \/ \E k \in 0..MaxSchemaRows : \E rs \in [1..k -> SchemaRows(RequiredSet)] :
            csv_file = File("ParserError", RequiredSet, rs)

Init ==
    /\ InitFile
    /\ df = NoneDf
    /\ invalid_records = <<>>
    /\ errors = <<>>
    /\ ret = [op |-> "init"]
    /\ loads = 0
    /\ site_group = NoGroup
    /\ InitProcess

Next == Load \/ CalculateStatistics

Spec == Init /\ [][Next]_vars

(***************************************************************************)
(* Specification of the statistics: files whose rows differ in site,       *)
(* adverse_event and completed_trial, and a row of a second site that is   *)
(* excluded for its age.                                                   *)
(***************************************************************************)
StatsFileRows ==
    RowsOver(RequiredSet, {"P001"}, {"Site_A", "Site_B"}, {"2024-01-15"}, {"35"},
             BoolTexts, BoolTexts)
    \cup RowsOver(RequiredSet, {"P001"}, {"Site_B"}, {"2024-01-15"}, {"200"},
                  {"true"}, {"false"})

InitStatsFile ==
    \/ \E k \in 0..MaxStatsRows : \E rs \in [1..k -> StatsFileRows] :
            csv_file = File("ok", RequiredSet, rs)
    \/ \E rs \in [1..1 -> SchemaRows(RequiredSet \ {"patient_id"})] :
            csv_file = File("ok", RequiredSet \ {"patient_id"}, rs)
    \/ csv_file = File("FileNotFoundError", {}, <<>>)

InitStats ==
    /\ InitStatsFile
    /\ df = NoneDf
    /\ invalid_records = <<>>
    /\ errors = <<>>
    /\ ret = [op |-> "init"]
    /\ loads = 0
    /\ site_group = NoGroup
    /\ InitProcess

SpecStats == InitStats /\ [][Next]_vars

(***************************************************************************)
(* Specification of the analysis operations: files whose rows differ in    *)
(* age and completed_trial, with the three operations called in any order. *)
(***************************************************************************)
AnalysisAgeTexts == {"0", "35", "50", "150", "200"}

AnalysisFileRows ==
    RowsOver(RequiredSet, {"P001"}, {"Site_A"}, {"2024-01-15"}, AnalysisAgeTexts,
             {"true"}, BoolTexts)

InitAnalysisFile ==
    \/ \E k \in 0..MaxAnalysisRows : \E rs \in [1..k -> AnalysisFileRows] :
            csv_file = File("ok", RequiredSet, rs)
    \/ \E c \in {"patient_id", "adverse_event", "age"} :
       \E rs \in [1..1 -> SchemaRows(RequiredSet \ {c})] :
            csv_file = File("ok", RequiredSet \ {c}, rs)
    \/ csv_file = File("FileNotFoundError", {}, <<>>)

InitAnalysis ==
    /\ InitAnalysisFile
    /\ df = NoneDf
    /\ invalid_records = <<>>
    /\ errors = <<>>
    /\ ret = [op |-> "init"]
    /\ loads = 0
    /\ site_group = NoGroup
    /\ InitProcess

NextAnalysis ==
    \/ Load
    \/ CalculateStatistics
    \/ GetAdvancedAnalysis
    \/ CreateVisualizations
    \/ GenerateTextReport
    \/ MainCorrelations

SpecAnalysis == InitAnalysis /\ [][NextAnalysis]_vars

(***************************************************************************)
(* Specification of the conversions: files whose rows differ in the text   *)
(* of the date, of the age (a number, no number, a number above the        *)
(* limit) and of adverse_event.                                            *)
(***************************************************************************)
CoerceFileRows ==
    RowsOver(RequiredSet, {"P001"}, {"Site_A"}, {"2024-01-15", "15/01/2024"},
             {"35", "abc", "200"}, {"TRUE", "1", "", "yes"}, {"false"})

InitCoerceFile ==
    \/ \E k \in 0..MaxCoerceRows : \E rs \in [1..k -> CoerceFileRows] :
            csv_file = File("ok", RequiredSet, rs)
    \/ \E rs \in [1..1 -> SchemaRows(RequiredSet \ {"patient_id"})] :
            csv_file = File("ok", RequiredSet \ {"patient_id"}, rs)
    \/ csv_file = File("FileNotFoundError", {}, <<>>)

InitCoerce ==
    /\ InitCoerceFile
    /\ df = NoneDf
    /\ invalid_records = <<>>
    /\ errors = <<>>
    /\ ret = [op |-> "init"]
    /\ loads = 0
    /\ site_group = NoGroup
    /\ InitProcess

SpecCoerce == InitCoerce /\ [][Next]_vars

(***************************************************************************)
(* Vocabulary of the properties.                                           *)
(***************************************************************************)
\* the state right after a call of load_and_validate_data
AfterLoad == ret.op = "load_and_validate_data"

\* the file is readable and has all six required columns
FullTable == csv_file.status = "ok" /\ RequiredSet \subseteq csv_file.header

\* load_and_validate_data has run on a full table: df and invalid_records
\* are its partition
Loaded == loads > 0 /\ FullTable

Indices(rs) == {rs[i].source_index : i \in 1..Len(rs)}

RecordAt(rs, idx) == CHOOSE r \in {rs[i] : i \in 1..Len(rs)} : r.source_index = idx

\* the validity predicates of the specification, on the texts of an input row
DateFails(raw) == to_datetime(raw["enrollment_date"]).nat

AgeFails(raw) ==
    LET a == to_numeric(raw["age"]) IN a.nan \/ a.n < 0 \/ a.n > 150

PatientIdFails(raw) == IsNA(raw["patient_id"])

SiteFails(raw) == IsNA(raw["trial_site"])

RowFails(raw) == DateFails(raw) \/ AgeFails(raw) \/ PatientIdFails(raw) \/ SiteFails(raw)

AllRowsFail == \A i \in 1..Len(csv_file.rows) : RowFails(csv_file.rows[i])

AgeShown ==
    AgeTexts \cup {"", "nan"}
    \cup {ToString(n) : n \in -1..200} \cup {ToString(n) \o ".0" : n \in -1..200}

AgeReasonTexts == {"Invalid age: " \o t : t \in AgeShown}

ReasonKind(s) ==
    CASE s = "Invalid enrollment date" -> "enrollment_date"
      [] s \in AgeReasonTexts -> "age"
      [] s = "Missing patient ID" -> "patient_id"
      [] s = "Missing trial site" -> "trial_site"
      [] OTHER -> "unknown"

ReasonKinds(rec) ==
    [i \in 1..Len(rec.validation_errors) |-> ReasonKind(rec.validation_errors[i])]

\* the failing predicates of an input row, in the order of the specification
FailingPredicates(raw) ==
    (IF DateFails(raw) THEN <<"enrollment_date">> ELSE <<>>)
    \o (IF AgeFails(raw) THEN <<"age">> ELSE <<>>)
    \o (IF PatientIdFails(raw) THEN <<"patient_id">> ELSE <<>>)
    \o (IF SiteFails(raw) THEN <<"trial_site">> ELSE <<>>)

Source(rec) == csv_file.rows[rec.source_index + 1]

InSeq(x, seq) == \E i \in 1..Len(seq) : seq[i] = x

(***************************************************************************)
(* C1: on a table with all six required columns, the working set and       *)
(* invalid_records partition the input rows: their sizes add up to the     *)
(* number of input rows, no row is in both and every row is in one.        *)
(***************************************************************************)
C1_PartitionTotalDisjoint ==
    Loaded =>
        /\ Len(df.rows) + Len(invalid_records) = Len(csv_file.rows)
        /\ Indices(df.rows) \cap Indices(invalid_records) = {}
        /\ Indices(df.rows) \cup Indices(invalid_records)
               = {i - 1 : i \in 1..Len(csv_file.rows)}
        /\ Cardinality(Indices(df.rows)) = Len(df.rows)
        /\ Cardinality(Indices(invalid_records)) = Len(invalid_records)

C1_Witness == Loaded /\ Len(df.rows) = 1 /\ Len(invalid_records) = 1

(***************************************************************************)
(* C2: every record of the working set has a parseable enrollment date, a  *)
(* parseable age within 0..150, a patient_id and a trial_site.             *)
(***************************************************************************)
C2_WorkingSetValid ==
    Loaded =>
        \A i \in 1..Len(df.rows) :
            LET r == df.rows[i] IN
            /\ ~r.enrollment_date.nat
            /\ ~r.age.nan /\ r.age.n >= 0 /\ r.age.n <= 150
            /\ r.patient_id # NaN /\ r.trial_site # NaN
            /\ ~RowFails(Source(r))

C2_Witness ==
    /\ Loaded /\ Len(df.rows) = 2
    /\ \E i \in 1..Len(df.rows) : df.rows[i].age.n = 150

(***************************************************************************)
(* C3: the reasons of an invalid record are one entry per failing          *)
(* predicate, in the order enrollment date, age, patient ID, trial site.   *)
(***************************************************************************)
C3_ReasonsPerPredicateInOrder ==
    Loaded =>
        \A i \in 1..Len(invalid_records) :
            ReasonKinds(invalid_records[i])
                = FailingPredicates(Source(invalid_records[i]))

C3_Witness ==
    /\ Loaded
    /\ \E i \in 1..Len(invalid_records) : Len(invalid_records[i].validation_errors) = 4
    /\ \E i \in 1..Len(invalid_records) :
           ReasonKinds(invalid_records[i]) = <<"age", "trial_site">>

(***************************************************************************)
(* C4: every record of invalid_records has a non-empty reason list, and no *)
(* record of the working set is one the reason checks give a reason for.   *)
(***************************************************************************)
C4_InvalidIffReason ==
    Loaded =>
        /\ \A i \in 1..Len(invalid_records) :
               invalid_records[i].validation_errors # <<>>
        /\ \A i \in 1..Len(df.rows) : reasons(df.rows[i], df.age_dtype) = <<>>

C4_Witness ==
    /\ Loaded /\ Len(df.rows) = 1 /\ Len(invalid_records) = 1
    /\ Len(invalid_records[1].validation_errors) = 1
    /\ invalid_records[1].age.n < 0

(***************************************************************************)
(* C5: the age bounds are inclusive: a row with age 0 or 150 and no other  *)
(* failing predicate is kept, a row with age below 0 or above 150 is       *)
(* invalid.                                                                *)
(***************************************************************************)
C5_AgeBoundsInclusive ==
    Loaded =>
        \A i \in 1..Len(csv_file.rows) :
            LET raw == csv_file.rows[i] IN
            /\ (/\ raw["age"] \in {"0", "150"}
                /\ ~DateFails(raw) /\ ~PatientIdFails(raw) /\ ~SiteFails(raw))
                   => (i - 1) \in Indices(df.rows)
            /\ raw["age"] \in {"-1", "151", "200"}
                   => (i - 1) \in Indices(invalid_records)

C5_Witness ==
    /\ Loaded /\ Len(df.rows) = 2
    /\ df.rows[1].age.n = 0 /\ df.rows[2].age.n = 150

(***************************************************************************)
(* C6: the invalid-age reason shows the age text of the input row: a row   *)
(* with age "abc" is in invalid_records with reason "Invalid age: abc" and *)
(* is not in the working set.                                              *)
(***************************************************************************)
C6_ReasonShowsOriginalAge ==
    Loaded =>
        \A i \in 1..Len(csv_file.rows) :
            csv_file.rows[i]["age"] = "abc" =>
                /\ (i - 1) \in Indices(invalid_records)
                /\ (i - 1) \notin Indices(df.rows)
                /\ InSeq("Invalid age: abc",
                         RecordAt(invalid_records, i - 1).validation_errors)

(***************************************************************************)
(* C7: when a required column is absent the load fails, the error names    *)
(* exactly the missing columns, nothing is validated and the analyzer      *)
(* holds no data set that calculate_statistics can report on.              *)
(***************************************************************************)
SchemaError == csv_file.status = "ok" /\ MissingCols(csv_file.header) # <<>>

C7_NoWorkingSetOnSchemaError ==
    (loads > 0 /\ SchemaError) =>
        /\ AfterLoad => ret.value = FALSE
        /\ errors[Len(errors)] = MissingColsMsg(MissingCols(csv_file.header))
        /\ invalid_records = <<>>
        /\ calculate_statistics(df, invalid_records).kind # "report"
        /\ ret.op = "calculate_statistics" => ret.kind # "report"

(***************************************************************************)
(* C8: when every input row fails validation the load reports failure and  *)
(* invalid_records holds one entry per input row, in row order, each with  *)
(* its reasons; when all rows have age 200 each entry has the reason       *)
(* "Invalid age: 200".                                                     *)
(***************************************************************************)
C8_AllInvalidKeepsDiagnostics ==
    (AfterLoad /\ FullTable /\ AllRowsFail) =>
        /\ ret.value = FALSE
        /\ Len(df.rows) = 0
        /\ errors[Len(errors)] = NoValidMsg
        /\ Len(invalid_records) = Len(csv_file.rows)
        /\ \A i \in 1..Len(invalid_records) :
               /\ invalid_records[i].source_index = i - 1
               /\ invalid_records[i].validation_errors # <<>>
        /\ (\A i \in 1..Len(csv_file.rows) : csv_file.rows[i]["age"] = "200")
               => \A i \in 1..Len(invalid_records) :
                      InSeq("Invalid age: 200", invalid_records[i].validation_errors)

C8_Witness ==
    /\ AfterLoad /\ FullTable /\ Len(csv_file.rows) = 2
    /\ \A i \in 1..Len(csv_file.rows) : csv_file.rows[i]["age"] = "200"
    /\ Len(invalid_records) = 2

(***************************************************************************)
(* C9: the partition is stable: the working set and invalid_records each   *)
(* list their rows in input order.                                         *)
(***************************************************************************)
Ascending(rs) ==
    \A i, j \in 1..Len(rs) : i < j => rs[i].source_index < rs[j].source_index

C9_PartitionStable == Loaded => Ascending(df.rows) /\ Ascending(invalid_records)

C9_Witness ==
    /\ Loaded /\ Len(df.rows) = 2
    /\ Source(df.rows[1]) # Source(df.rows[2])

(***************************************************************************)
(* C10 as stated: the load fails only for a missing required column or an  *)
(* empty working set; otherwise it succeeds with a working set of valid    *)
(* records only and the excluded records with their reasons.               *)
(***************************************************************************)
SucceedsWithAudit ==
    /\ df.converted /\ Len(df.rows) > 0
    /\ \A i \in 1..Len(df.rows) : ~RowFails(Source(df.rows[i]))
    /\ \A i \in 1..Len(csv_file.rows) :
           RowFails(csv_file.rows[i]) =>
               /\ (i - 1) \in Indices(invalid_records)
               /\ RecordAt(invalid_records, i - 1).validation_errors # <<>>

C10_OnlyTwoFatalConditions ==
    AfterLoad =>
        /\ ret.value = FALSE <=> (SchemaError \/ (FullTable /\ AllRowsFail))
        /\ ret.value = TRUE => SucceedsWithAudit

(***************************************************************************)
(* C10 amended: the load fails in exactly three cases: reading the file    *)
(* raises (reported as "Error loading CSV: ..."), a required column is     *)
(* missing, or the working set is empty; otherwise it succeeds with a      *)
(* working set of valid records only and the excluded records with their   *)
(* reasons.                                                                *)
(***************************************************************************)
ReadRaises == csv_file.status # "ok"

C10_ThreeFatalConditions ==
    AfterLoad =>
        /\ ret.value = FALSE
               <=> (ReadRaises \/ SchemaError \/ (FullTable /\ AllRowsFail))
        /\ ret.value = TRUE => SucceedsWithAudit
        /\ ReadRaises => errors[Len(errors)] = LoadErrorMsg(csv_file.status)

C10_Witness ==
    /\ AfterLoad /\ ret.value = FALSE
    /\ csv_file.status = "ParserError" /\ Len(csv_file.rows) = 1
    /\ ~AllRowsFail

(***************************************************************************)
(* Aggregate note of a load.                                               *)
(***************************************************************************)
\* number of rows of the input file that fail a validity predicate
FailingCount == Cardinality({i \in 1..Len(csv_file.rows) : RowFails(csv_file.rows[i])})

\* number of rows of the input file that pass every validity predicate
PassingCount == Len(csv_file.rows) - FailingCount

\* C11: a load of a full table with N >= 1 failing rows and at least one
\* passing row succeeds and adds exactly one message to errors, the aggregate
\* note that N invalid records were excluded; with N = 0 and at least one
\* passing row it succeeds and adds no message.
C11_OneAggregateNote ==
    [][(loads' = loads + 1 /\ FullTable /\ PassingCount >= 1)
         => /\ ret' = LoadRet(TRUE)
            /\ Len(invalid_records') = FailingCount
            /\ FailingCount >= 1 => errors' = Append(errors, TotalInvalidMsg(FailingCount))
            /\ FailingCount = 0 => errors' = errors]_vars

C11_Witness ==
    /\ AfterLoad /\ FullTable /\ loads = 1
    /\ PassingCount = 1 /\ FailingCount = 1
    /\ ret.value = TRUE
    /\ errors = <<"Total: 1 invalid record(s) excluded from analysis">>

(***************************************************************************)
(* Output of calculate_statistics.                                         *)
(***************************************************************************)
\* the state right after a call of calculate_statistics that returned a report
AfterReport == ret.op = "calculate_statistics" /\ ret.kind = "report"

RECURSIVE MapSum(_, _)
MapSum(f, S) ==
    IF S = {} THEN 0
    ELSE LET x == CHOOSE y \in S : TRUE IN f[x] + MapSum(f, S \ {x})

\* rows of the input file that pass every validity predicate and name site s
PassingAtSite(s) ==
    {i \in 1..Len(csv_file.rows) :
        ~RowFails(csv_file.rows[i]) /\ csv_file.rows[i]["trial_site"] = s}

\* C13: patients_per_site has exactly the site labels of the working set as
\* keys, maps each to the number of working-set records of that site (the
\* passing rows of the file that name it), and its counts sum to
\* total_patients; a site that occurs in excluded rows only has no entry.
C13_PatientsPerSite ==
    (AfterReport /\ Loaded) =>
        LET pps == ret.patients_per_site
        IN /\ DOMAIN pps = {df.rows[i].trial_site : i \in 1..Len(df.rows)}
           /\ \A s \in DOMAIN pps :
                  /\ pps[s] = Cardinality({i \in 1..Len(df.rows) : df.rows[i].trial_site = s})
                  /\ pps[s] = Cardinality(PassingAtSite(s))
                  /\ pps[s] >= 1
           /\ \A i \in 1..Len(csv_file.rows) :
                  PassingAtSite(csv_file.rows[i]["trial_site"]) = {}
                      => csv_file.rows[i]["trial_site"] \notin DOMAIN pps
           /\ MapSum(pps, DOMAIN pps) = ret.total_patients

C13_Witness ==
    /\ AfterReport /\ Loaded
    /\ DOMAIN ret.patients_per_site = {"Site_A"}
    /\ ret.patients_per_site["Site_A"] = 2
    /\ \E i \in 1..Len(csv_file.rows) : csv_file.rows[i]["trial_site"] = "Site_B"

Abs(x) == IF x < 0 THEN 0 - x ELSE x

\* h, in hundredths, is the value part / whole of a percentage rounded to 2 decimals
IsPercentRounded(h, part, whole) == 2 * Abs(h * whole - 100 * 100 * part) <= whole

\* working-set records with completed_trial true
CompletedIn(rows) == {i \in 1..Len(rows) : rows[i].completed_trial}

\* working-set records with adverse_event true
AdverseIn(rows) == {i \in 1..Len(rows) : rows[i].adverse_event}

\* rows of the input file with the given adverse_event and completed_trial texts
FileRowsWith(ae, ct) ==
    {i \in 1..Len(csv_file.rows) :
        csv_file.rows[i]["adverse_event"] = ae /\ csv_file.rows[i]["completed_trial"] = ct}

\* three valid records, one adverse and not completed, two not adverse and completed
ScenarioA ==
    /\ Len(csv_file.rows) = 3 /\ PassingCount = 3
    /\ Cardinality(FileRowsWith("true", "false")) = 1
    /\ Cardinality(FileRowsWith("false", "true")) = 2

\* C14: completion_rate_percent is 100 * (records with completed_trial true) / n
\* and adverse_event_rate_percent is 100 * (records with adverse_event true) / n,
\* each rounded to 2 decimals and within [0, 100]; in scenario A they are
\* 66.67 and 33.33 with total_patients 3.  Rates are in hundredths.
C14_RatesRounded ==
    (AfterReport /\ Loaded) =>
        LET n == Len(df.rows)
        IN /\ IsPercentRounded(ret.completion_rate_percent,
                               Cardinality(CompletedIn(df.rows)), n)
           /\ IsPercentRounded(ret.adverse_event_rate_percent,
                               Cardinality(AdverseIn(df.rows)), n)
           /\ ret.completion_rate_percent \in 0..(100 * 100)
           /\ ret.adverse_event_rate_percent \in 0..(100 * 100)
           /\ ScenarioA => /\ ret.total_patients = 3
                           /\ ret.completion_rate_percent = 6667
                           /\ ret.adverse_event_rate_percent = 3333

C14_Witness ==
    /\ AfterReport /\ Loaded /\ ScenarioA
    /\ ret.completion_rate_percent = 6667
    /\ ret.adverse_event_rate_percent = 3333

\* working-set records of the stratum adverse_event = b
Stratum(rows, b) == {i \in 1..Len(rows) : rows[i].adverse_event = b}

\* rate is the reported completion rate of the stratum adverse_event = b
IsStratumRate(rate, rows, b) ==
    IF Stratum(rows, b) = {} THEN rate = 0
    ELSE IsPercentRounded(rate, Cardinality(Stratum(rows, b) \cap CompletedIn(rows)),
                          Cardinality(Stratum(rows, b)))

\* C15: the completion rate of each adverse_event stratum is
\* 100 * completed-in-stratum / stratum size (rounded to 2 decimals) when the
\* stratum is non-empty and exactly 0 when it is empty; on a non-empty
\* working set calculate_statistics returns its report (it does not raise)
\* and both rates are numbers within [0, 100].
C15_StratumRates ==
    (Loaded /\ ret.op = "calculate_statistics" /\ Len(df.rows) > 0) =>
        /\ ret.kind = "report"
        /\ IsStratumRate(ret.completion_rate_with_adverse_percent, df.rows, TRUE)
        /\ IsStratumRate(ret.completion_rate_without_adverse_percent, df.rows, FALSE)
        /\ ret.completion_rate_with_adverse_percent \in 0..(100 * 100)
        /\ ret.completion_rate_without_adverse_percent \in 0..(100 * 100)

C15_Witness ==
    /\ AfterReport /\ Loaded
    /\ Stratum(df.rows, TRUE) = {}
    /\ ret.completion_rate_with_adverse_percent = 0
    /\ ret.completion_rate_without_adverse_percent = 100 * 100
    /\ ret.completion_rate_percent = 100 * 100

\* n times the difference, in hundredths, between the overall completion
\* rate and the stratum rates weighted by the stratum sizes
SumLawGap(r, rows) ==
    Abs(r.completion_rate_with_adverse_percent * Cardinality(Stratum(rows, TRUE))
        + r.completion_rate_without_adverse_percent * Cardinality(Stratum(rows, FALSE))
        - r.completion_rate_percent * Len(rows))

\* C16: the stratum completion rates weighted by the stratum sizes and
\* divided by n equal completion_rate_percent within the rounding tolerance
\* of 0.01 (one hundredth: half a hundredth for the rounding of each side),
\* also when a stratum is empty.
C16_SumLaw ==
    (AfterReport /\ Loaded) => SumLawGap(ret, df.rows) <= Len(df.rows)

C16_Witness ==
    /\ AfterReport /\ Loaded
    /\ Cardinality(Stratum(df.rows, TRUE)) = 1
    /\ Cardinality(Stratum(df.rows, FALSE)) = 2
    /\ ret.completion_rate_with_adverse_percent = 100 * 100
    /\ ret.completion_rate_without_adverse_percent = 50 * 100
    /\ ret.completion_rate_percent = 6667
    /\ SumLawGap(ret, df.rows) = 1

\* C17: a call of calculate_statistics changes neither the working set nor
\* invalid_records nor errors, and a call that directly follows another
\* call returns the same output.
C17_StatisticsIdempotent ==
    [][ret'.op = "calculate_statistics"
         => /\ df' = df
            /\ invalid_records' = invalid_records
            /\ errors' = errors
            /\ ret' = calculate_statistics(df, invalid_records)
            /\ ret.op = "calculate_statistics" => ret' = ret]_vars

C17_Witness ==
    /\ AfterReport /\ Loaded
    /\ Len(invalid_records) = 1 /\ errors # <<>>
    /\ ret = calculate_statistics(df, invalid_records)

(***************************************************************************)
(* The analysis operations.                                                *)
(***************************************************************************)
AnalysisOps == {"calculate_statistics", "get_advanced_analysis", "create_visualizations"}

\* C18: a call of calculate_statistics, get_advanced_analysis or
\* create_visualizations leaves the records and the columns of the working
\* set unchanged and leaves nothing behind for a later call: the table, the
\* invalid records and the messages are after the call what they were before.
C18_AnalysisIsPure ==
    [][ret'.op \in AnalysisOps
         => /\ df'.rows = df.rows
            /\ df'.columns = df.columns
            /\ df' = df
            /\ invalid_records' = invalid_records
            /\ errors' = errors]_vars

\* the state right after a call of get_advanced_analysis that returned its report
AfterAnalysis == ret.op = "get_advanced_analysis" /\ ret.kind = "report"

\* C19: in the age-group analysis every record of the working set (every age
\* with 0 <= age <= 150) is in one of the four buckets, so the bucket counts
\* sum to the size of the working set.
C19_BucketsCoverValidAges ==
    (AfterAnalysis /\ Loaded) =>
        /\ \A i \in 1..Len(df.rows) :
               df.age_group[i] \in {analysis_labels[k] : k \in 1..Len(analysis_labels)}
        /\ MapSum([g \in DOMAIN ret.age_group_analysis |->
                      ret.age_group_analysis[g].completed_count],
                  DOMAIN ret.age_group_analysis) = Len(df.rows)

(***************************************************************************)
(* Site grades.                                                            *)
(***************************************************************************)
\* the state right after the site ranking query
AfterRanking == ret.op = "query_sqlite"

\* the letter of a grade label
GradeLetter(g) ==
    CASE g = "A (Excellent)" -> "A"
      [] g = "B (Good)" -> "B"
      [] g = "C (Fair)" -> "C"
      [] g = "D (Poor)" -> "D"
      [] OTHER -> "none"

\* C20: the grade of a site is a total function of its completion rate (the
\* percentage of the ranking, rounded to 2 decimals; here in hundredths) with
\* closed lower thresholds: A from 90, B from 70 to below 90, C from 50 to
\* below 70, D below 50; a rate below 90 is never graded A, and the grades of
\* 89.99, 90.0, 70.0 and 49.99 are B, A, B and D.
C20_GradeThresholds ==
    AfterRanking =>
        LET rate == ret.completion_pct
            letter == GradeLetter(ret.grade)
        IN /\ letter \in {"A", "B", "C", "D"}
           /\ letter = "A" <=> rate >= 9000
           /\ letter = "B" <=> (7000 <= rate /\ rate < 9000)
           /\ letter = "C" <=> (5000 <= rate /\ rate < 7000)
           /\ letter = "D" <=> rate < 5000
           /\ rate = 8999 => letter = "B"
           /\ rate = 9000 => letter = "A"
           /\ rate = 7000 => letter = "B"
           /\ rate = 4999 => letter = "D"
           /\ 2 * Abs(rate * ret.total - 100 * 100 * ret.completed) <= ret.total

C20_Witness ==
    /\ AfterRanking
    /\ ret.completion_pct = 8999
    /\ ret.grade = "B (Good)"

(***************************************************************************)
(* Repeated loads on one analyzer.                                         *)
(***************************************************************************)
\* C22: a further call of load_and_validate_data on the same analyzer leaves
\* the working set, invalid_records and errors equal to what a single call
\* on a fresh analyzer produces for that input: on an unchanged file, what
\* the first call left.
C22_LoadKeepsNothing ==
    [][(loads >= 1 /\ loads' = loads + 1)
         => /\ df' = df
            /\ invalid_records' = invalid_records
            /\ errors' = errors]_vars

(***************************************************************************)
(* Conversions.                                                            *)
(***************************************************************************)
\* the records load_and_validate_data produced, kept and excluded
AllRecords ==
    {df.rows[i] : i \in 1..Len(df.rows)}
    \cup {invalid_records[i] : i \in 1..Len(invalid_records)}

\* the text, compared case-insensitively, is "true" or "1"
TextIsTrue(t) == Lower(Chars(t)) \in {Chars("true"), Chars("1")}

\* C23: adverse_event and completed_trial of every record are booleans, true
\* exactly when the text of the input row, compared case-insensitively, is
\* "true" or "1"; the boolean texts do not decide whether a record is valid.
C23_BooleanFromText ==
    Loaded =>
        /\ \A r \in AllRecords :
               /\ r.adverse_event \in BOOLEAN /\ r.completed_trial \in BOOLEAN
               /\ r.adverse_event = TextIsTrue(Source(r)["adverse_event"])
               /\ r.completed_trial = TextIsTrue(Source(r)["completed_trial"])
        /\ \A i \in 1..Len(csv_file.rows) :
               RowFails(csv_file.rows[i]) <=> (i - 1) \in Indices(invalid_records)

\* the text is not a date of the format YYYY-MM-DD
BadDateText(t) == ParseDate(t).nat

\* the text is not a number
BadAgeText(t) == IsNA(t) \/ ~IsIntLiteral(Chars(t))

\* C25: the conversion of a record never aborts the load: a date text that
\* does not match YYYY-MM-DD and an age text that is not a number become the
\* unparseable marker, the record is in invalid_records with the reason of
\* that field, no "Error loading CSV" message is written, and every other
\* row is processed: kept when it passes, excluded with its reasons when not.
C25_CoercionNeverAborts ==
    Loaded =>
        /\ \A i \in 1..Len(errors) : errors[i] \in {NoValidMsg} \cup
                                        {TotalInvalidMsg(n) : n \in 1..Len(csv_file.rows)}
        /\ Len(df.rows) + Len(invalid_records) = Len(csv_file.rows)
        /\ \A i \in 1..Len(csv_file.rows) :
               LET raw == csv_file.rows[i] IN
               /\ BadDateText(raw["enrollment_date"]) =>
                      /\ (i - 1) \in Indices(invalid_records)
                      /\ RecordAt(invalid_records, i - 1).enrollment_date = NaT
                      /\ InSeq("Invalid enrollment date",
                               RecordAt(invalid_records, i - 1).validation_errors)
               /\ BadAgeText(raw["age"]) =>
                      /\ (i - 1) \in Indices(invalid_records)
                      /\ RecordAt(invalid_records, i - 1).age = NumNaN
                      /\ InSeq("Invalid age: nan",
                               RecordAt(invalid_records, i - 1).validation_errors)
               /\ ~RowFails(raw) => (i - 1) \in Indices(df.rows)

C25_Witness ==
    /\ AfterLoad /\ Loaded /\ ret.value = TRUE
    /\ Len(csv_file.rows) = 2
    /\ csv_file.rows[1]["enrollment_date"] = "15/01/2024"
    /\ csv_file.rows[1]["age"] = "abc"
    /\ Len(invalid_records) = 1 /\ Len(invalid_records[1].validation_errors) = 2
    /\ Len(df.rows) = 1 /\ df.rows[1].source_index = 1

(***************************************************************************)
(* Correlations.                                                           *)
(***************************************************************************)
\* the values of a correlated column of the working set
FieldValues(c) == {NumCell(StatsRows(df)[i], c).n : i \in 1..Len(df.rows)}

\* C24: when a correlated field has one value only in the working set,
\* get_advanced_analysis returns its report with the undefined marker for
\* every pair with that field, and the console output of main presents such
\* a pair as no correlation data: neither as positive nor as negative.
C24_UndefinedCorrelation ==
    /\ (AfterAnalysis /\ Loaded) =>
           \A a \in DOMAIN ret.correlations : \A b \in DOMAIN ret.correlations :
               Cardinality(FieldValues(a)) = 1 =>
                   ret.correlations[a][b].nan /\ ret.correlations[b][a].nan
    /\ (ret.op = "main" /\ Loaded) =>
           \A p \in DOMAIN ret.key_correlations :
               ret.key_correlations[p].value.nan
                   => ret.key_correlations[p].label \notin {"Positive", "Negative"}

(***************************************************************************)
(* Repeated analysis calls after a successful load.                        *)
(***************************************************************************)
\* the last load succeeded: the working set is converted and not empty
LoadSucceeded == ~df.isNone /\ df.converted /\ Len(df.rows) > 0

\* the working set as the load left it, without an age_group column
AsLoaded == [df EXCEPT !.columns = @ \ {"age_group"}, !.age_group = <<>>]

\* the bucket of every record of the working set
Bucketing(bins, labels) ==
    [i \in 1..Len(df.rows) |-> cut(df.rows[i].age, bins, labels)]

\* C27: after a successful load, whatever analysis calls came before,
\* calculate_statistics returns what it returns on the freshly loaded
\* working set and leaves age_group alone; get_advanced_analysis leaves the
\* 4-bucket grouping in age_group and create_visualizations the 5-bucket one.
C27_StatisticsStableAgeGroupLatest ==
    [][LoadSucceeded =>
         /\ ret'.op = "calculate_statistics"
              => /\ ret' = calculate_statistics(AsLoaded, invalid_records)
                 /\ df' = df
         /\ ret'.op = "get_advanced_analysis"
              => /\ df'.age_group = Bucketing(analysis_bins, analysis_labels)
                 /\ "age_group" \in df'.columns
         /\ ret'.op = "create_visualizations"
              => /\ df'.age_group = Bucketing(age_bins, age_labels)
                 /\ "age_group" \in df'.columns
         /\ ret'.op \in {"generate_text_report", "main"} => df' = df]_vars

\* statistics were returned for a two-record working set on which
\* create_visualizations was the last call that grouped the ages
C27_Witness ==
    /\ AfterReport /\ LoadSucceeded /\ Len(df.rows) = 2
    /\ "age_group" \in df.columns
    /\ df.age_group = Bucketing(age_bins, age_labels)
    /\ df.age_group # Bucketing(analysis_bins, analysis_labels)

(***************************************************************************)
(* Calls without valid data.                                               *)
(***************************************************************************)
\* load_and_validate_data was never called, or it ran on a full table and
\* no record was valid
NoValidData == loads = 0 \/ (Loaded /\ df.converted /\ Len(df.rows) = 0)

\* C28: without valid data (no load yet, or a load in which no record was
\* valid) calculate_statistics and get_advanced_analysis return an empty
\* mapping and generate_text_report returns "No valid data to report."; none
\* of them raises.
C28_NoDataNoFailure ==
    [][NoValidData =>
         /\ ret'.op = "calculate_statistics" => ret' = [op |-> ret'.op, kind |-> "empty"]
         /\ ret'.op = "get_advanced_analysis"
              => ret' = [op |-> ret'.op, kind |-> "empty"] /\ df' = df
         /\ ret'.op = "generate_text_report"
              => ret'.kind = "text" /\ ret'.text = "No valid data to report."]_vars

\* the text report was asked for after a load in which the only record was
\* invalid
C28_Witness ==
    /\ Loaded /\ df.converted /\ Len(df.rows) = 0 /\ Len(invalid_records) = 1
    /\ ret.op = "generate_text_report" /\ ret.kind = "text"
    /\ ret.text = "No valid data to report."

(***************************************************************************)
(* Output of the engine.                                                   *)
(***************************************************************************)
\* C26: a call of load_and_validate_data, calculate_statistics or
\* get_advanced_analysis writes no file and emits no log: the log file is
\* after the call what it was before.
C26_EngineEmitsNoLog ==
    [][ret'.op \in {"load_and_validate_data", "calculate_statistics",
                    "get_advanced_analysis"}
         => log' = log]_vars

(***************************************************************************)
(* The patients table over several runs.                                   *)
(***************************************************************************)
\* the site groups of a converted table: per site the number of rows and of
\* completed ones
SiteGroups(rows) ==
    [s \in {rows[i].trial_site : i \in 1..Len(rows)} |->
        [total |-> Cardinality({i \in 1..Len(rows) : rows[i].trial_site = s}),
         completed |-> Cardinality({i \in 1..Len(rows) :
                          rows[i].trial_site = s /\ rows[i].completed_trial})]]

\* the site ranking query can run on the table
Queryable == patients.exists /\ {"trial_site", "completed_trial"} \subseteq patients.data.columns

\* C30: load_to_sqlite of an analyzer with a table replaces the patients
\* table by that table and notes nothing; without one it appends one
\* message, raises nothing and leaves the table; no other call changes the
\* table, so it is the working set of the last successful load_to_sqlite of
\* any run.  query_sqlite reads that table, also after a failed
\* load_to_sqlite; when it fails it appends one message and returns None.
C30_PatientsTableReplaced ==
    [][/\ ret'.op = "load_to_sqlite" /\ ~df.isNone
          => patients' = [exists |-> TRUE, data |-> df] /\ errors' = errors
       /\ ret'.op = "load_to_sqlite" /\ df.isNone
          => /\ patients' = patients
             /\ Len(errors') = Len(errors) + 1
             /\ SubSeq(errors', 1, Len(errors)) = errors
       /\ ret'.op # "load_to_sqlite" => patients' = patients
       /\ ret'.op = "query_sqlite" /\ ~Queryable
          => /\ ret'.value = "None"
             /\ Len(errors') = Len(errors) + 1
             /\ SubSeq(errors', 1, Len(errors)) = errors
       /\ ret'.op = "query_sqlite" /\ Queryable
          => /\ errors' = errors
             /\ DOMAIN ret'.value = DOMAIN SiteGroups(patients.data.rows)
             /\ \A s \in DOMAIN ret'.value :
                    /\ ret'.value[s].total = SiteGroups(patients.data.rows)[s].total
                    /\ ret'.value[s].completed
                         = SiteGroups(patients.data.rows)[s].completed]_vars

\* the second analyzer of the process has no table: its load_to_sqlite
\* failed with one message, and its query returned the site of the table
\* that the first analyzer had stored
C30_Witness ==
    /\ runs = 2 /\ df.isNone
    /\ Len(errors) = 1
    /\ Queryable /\ Len(patients.data.rows) = 1
    /\ ret.op = "query_sqlite"
    /\ DOMAIN ret.value = {"Site_A"}

(***************************************************************************)
(* Interleaved requests.                                                   *)
(***************************************************************************)
\* what a request answers when no other request runs: the statistics and
\* the site groups of its own upload
OwnStatistics(r) == analyze(requests[r].upload).stats

OwnGroups(r) == SiteGroups(analyze(requests[r].upload).df.rows)

\* C21: whatever the interleaving of two requests, the statistics and the
\* site ranking (rows and grades) a request answers with are those of the
\* records of its own upload.
C21_RequestsIndependent ==
    \A r \in DOMAIN requests :
        requests[r].pc = "done" =>
            /\ requests[r].stats = OwnStatistics(r)
            /\ requests[r].ranking # NoResult =>
                   /\ DOMAIN requests[r].ranking = DOMAIN OwnGroups(r)
                   /\ \A s \in DOMAIN OwnGroups(r) :
                          /\ requests[r].ranking[s].total = OwnGroups(r)[s].total
                          /\ requests[r].ranking[s].completed = OwnGroups(r)[s].completed
                          /\ requests[r].ranking[s].grade
                               = grade(SqlRoundPercent(OwnGroups(r)[s].completed,
                                                       OwnGroups(r)[s].total))

(***************************************************************************)
(* The two copies of the program.                                          *)
(***************************************************************************)
\* the invalid records of this copy without the reasons it adds
WithoutReasons(inv) ==
    [i \in 1..Len(inv) |->
        [c \in DOMAIN inv[i] \ {"validation_errors"} |-> inv[i][c]]]

\* the statistics of this copy under the keys the older copy reports too
SharedKeys(stats) ==
    IF stats.kind # "report" THEN [kind |-> stats.kind]
    ELSE [kind |-> stats.kind,
          total_patients |-> stats.total_patients,
          patients_per_site |-> stats.patients_per_site,
          average_age |-> stats.average_age,
          completion_rate_percent |-> stats.completion_rate_percent,
          adverse_event_rate_percent |-> stats.adverse_event_rate_percent,
          completion_rate_with_adverse_percent |-> stats.completion_rate_with_adverse_percent,
          completion_rate_without_adverse_percent |->
              stats.completion_rate_without_adverse_percent,
          data_quality |-> [valid_records |-> stats.data_quality.valid_records,
                            invalid_records |-> stats.data_quality.invalid_records]]

\* the state of this copy and the last statistics agree with a state of the
\* older copy
AgreesWith(older) ==
    /\ df = older.df
    /\ WithoutReasons(invalid_records) = older.invalid_records
    /\ AfterLoad => ret.value = older.value
    /\ ret.op = "calculate_statistics"
          => SharedKeys(ret) = screenshots_calculate_statistics(df, older.invalid_records)

\* C29: on every file both copies return the same value from
\* load_and_validate_data, keep the same records in the same order in the
\* working set and put the same records in invalid_records (this copy adds
\* the reasons to each); calculate_statistics of both gives the same value
\* for every key both report, in data_quality for the two counts both report.
C29_CopiesAgree == loads > 0 => AgreesWith(screenshots_load(csv_file))

\* statistics were returned after a load that kept one record and excluded
\* one for an age above the limit
C29_Witness ==
    /\ ret.op = "calculate_statistics" /\ ret.kind = "report" /\ Loaded
    /\ Len(df.rows) = 1 /\ Len(invalid_records) = 1
    /\ ~invalid_records[1].age.nan /\ invalid_records[1].age.n > MaxAge

=============================================================================
